---- MODULE Spec2Model ----
(***************************************************************************)
(* Model of the mock resource service of src/routes.py: the bearer-token   *)
(* check, the in-memory project list with its list/create handlers, and    *)
(* the login handler.  Strings are sequences of one-character strings so   *)
(* that strip(), lower(), replace(), startswith() and the `in` test are    *)
(* computed the way Python computes them.                                  *)
(***************************************************************************)
EXTENDS Integers, Sequences, FiniteSets, TLC

VARIABLES projects, uuidCalls, last, input, items, nextItemId, inflight

vars == <<projects, uuidCalls, last, input, items, nextItemId, inflight>>

----------------------------------------------------------------------------
(* Bounds of the model. *)

\* successful create_project calls explored in one run
MaxCreated == 2
\* largest page number requested in the pagination checks
MaxPage == 4
\* largest small page size requested in the pagination checks
MaxSize == 4
\* pieces an Authorization header is assembled from in the token checks
MaxPieces == 3

\* entries of a selection (personas, APIs, providers) in one request
MaxSelected == 2

\* items created in one behaviour
MaxItems == 3

----------------------------------------------------------------------------
(* Program constants. *)

MinTokenLen == 10
MinPasswordLen == 3
MaxNameLen == 255
MaxDescriptionLen == 1000
DefaultSize == 50
MaxQuerySize == 100

----------------------------------------------------------------------------
(* JSON / Python values: None, a str, any other JSON value, a missing key. *)

None == [t |-> "none", v |-> <<>>]
Absent == [t |-> "absent", v |-> <<>>]
NotStr == [t |-> "other", v |-> <<>>]
Str(s) == [t |-> "str", v |-> s]

IsStr(x) == x.t = "str"

\* Python truthiness of an Optional[str]: None and "" are falsy
Truthy(x) == IsStr(x) /\ Len(x.v) > 0

Rep(c, n) == [i \in 1..n |-> c]

----------------------------------------------------------------------------
(* Python str methods. *)

UpperChars ==
    <<"A", "B", "C", "D", "E", "F", "G", "H", "I", "J", "K", "L", "M",
      "N", "O", "P", "Q", "R", "S", "T", "U", "V", "W", "X", "Y", "Z">>

LowerChars ==
    <<"a", "b", "c", "d", "e", "f", "g", "h", "i", "j", "k", "l", "m",
      "n", "o", "p", "q", "r", "s", "t", "u", "v", "w", "x", "y", "z">>

\* the characters without a case that occur in the strings of the model
OtherChars ==
    {"0", "1", "2", "3", "4", "5", "6", "7", "8", "9",
     " ", "\t", "\n", "-", "_", "@", "."}

UpperSet == {UpperChars[i] : i \in DOMAIN UpperChars}

LowerSet == {LowerChars[i] : i \in DOMAIN LowerChars}

\* the lower-case form of each character
ToLower ==
    [c \in UpperSet \cup LowerSet \cup OtherChars |->
        IF c \in UpperSet
        THEN LowerChars[CHOOSE i \in DOMAIN UpperChars : UpperChars[i] = c]
        ELSE c]

LowerChar(c) == ToLower[c]

\* str.lower()
Lower(s) == [i \in DOMAIN s |-> LowerChar(s[i])]

\* str.isspace() of one character
IsSpace(c) == c \in {" ", "\t", "\n"}

RECURSIVE LStrip(_)
LStrip(s) ==
    IF s # <<>> /\ IsSpace(Head(s)) THEN LStrip(Tail(s)) ELSE s

RECURSIVE RStrip(_)
RStrip(s) ==
    IF s # <<>> /\ IsSpace(s[Len(s)]) THEN RStrip(SubSeq(s, 1, Len(s) - 1)) ELSE s

\* str.strip()
Strip(s) == RStrip(LStrip(s))

\* s.startswith(p)
StartsWith(s, p) == Len(s) >= Len(p) /\ SubSeq(s, 1, Len(p)) = p

\* t in s
Contains(s, t) ==
    \E i \in 0..(Len(s) - Len(t)) : \A j \in 1..Len(t) : s[i + j] = t[j]

\* s.replace(old, ""): every non-overlapping occurrence, left to right
RECURSIVE Remove(_, _)
Remove(s, old) ==
    IF Len(s) < Len(old) THEN s
    ELSE IF SubSeq(s, 1, Len(old)) = old
         THEN Remove(SubSeq(s, Len(old) + 1, Len(s)), old)
         ELSE <<Head(s)>> \o Remove(Tail(s), old)

\* s[start:end] for 0 <= start <= end
Slice(s, start, end) ==
    LET lo == IF start < Len(s) THEN start ELSE Len(s)
        hi == IF end < Len(s) THEN end ELSE Len(s)
    IN  SubSeq(s, lo + 1, hi)

----------------------------------------------------------------------------
(* The initial project list. *)

Name1 ==
    <<"E", "-", "c", "o", "m", "m", "e", "r", "c", "e", " ", "P", "l", "a", "t", "f",
       "o", "r", "m">>

Description1 ==
    <<"B", "2", "B", " ", "e", "-", "c", "o", "m", "m", "e", "r", "c", "e", " ", "s",
       "o", "l", "u", "t", "i", "o", "n", " ", "w", "i", "t", "h", " ", "a", "d",
       "v", "a", "n", "c", "e", "d", " ", "i", "n", "v", "e", "n", "t", "o", "r",
       "y", " ", "m", "a", "n", "a", "g", "e", "m", "e", "n", "t", " ", "a", "n",
       "d", " ", "r", "e", "a", "l", "-", "t", "i", "m", "e", " ", "a", "n", "a",
       "l", "y", "t", "i", "c", "s">>

Name2 ==
    <<"C", "u", "s", "t", "o", "m", "e", "r", " ", "P", "o", "r", "t", "a", "l">>

Description2 ==
    <<"S", "e", "l", "f", "-", "s", "e", "r", "v", "i", "c", "e", " ", "p", "o", "r",
       "t", "a", "l", " ", "f", "o", "r", " ", "c", "u", "s", "t", "o", "m", "e",
       "r", " ", "a", "c", "c", "o", "u", "n", "t", " ", "m", "a", "n", "a", "g",
       "e", "m", "e", "n", "t">>

Name3 ==
    <<"I", "n", "t", "e", "r", "n", "a", "l", " ", "D", "a", "s", "h", "b", "o", "a",
       "r", "d">>

Description3 ==
    <<"A", "n", "a", "l", "y", "t", "i", "c", "s", " ", "d", "a", "s", "h", "b", "o",
       "a", "r", "d", " ", "f", "o", "r", " ", "b", "u", "s", "i", "n", "e", "s",
       "s", " ", "i", "n", "t", "e", "l", "l", "i", "g", "e", "n", "c", "e", " ",
       "a", "n", "d", " ", "r", "e", "p", "o", "r", "t", "i", "n", "g">>

Name4 ==
    <<"M", "o", "b", "i", "l", "e", " ", "A", "p", "p", " ", "B", "a", "c", "k", "e",
       "n", "d">>

Description4 ==
    <<"R", "E", "S", "T", "f", "u", "l", " ", "A", "P", "I", " ", "b", "a", "c", "k",
       "e", "n", "d", " ", "f", "o", "r", " ", "i", "O", "S", " ", "a", "n", "d",
       " ", "A", "n", "d", "r", "o", "i", "d", " ", "a", "p", "p", "l", "i", "c",
       "a", "t", "i", "o", "n", "s">>

Name5 ==
    <<"P", "a", "y", "m", "e", "n", "t", " ", "G", "a", "t", "e", "w", "a", "y", " ",
       "I", "n", "t", "e", "g", "r", "a", "t", "i", "o", "n">>

Description5 ==
    <<"S", "e", "c", "u", "r", "e", " ", "p", "a", "y", "m", "e", "n", "t", " ", "p",
       "r", "o", "c", "e", "s", "s", "i", "n", "g", " ", "s", "y", "s", "t", "e",
       "m", " ", "w", "i", "t", "h", " ", "m", "u", "l", "t", "i", "p", "l", "e",
       " ", "p", "a", "y", "m", "e", "n", "t", " ", "p", "r", "o", "v", "i", "d",
       "e", "r", "s">>

Name6 ==
    <<"I", "n", "v", "e", "n", "t", "o", "r", "y", " ", "M", "a", "n", "a", "g", "e",
       "m", "e", "n", "t", " ", "S", "y", "s", "t", "e", "m">>

MOCK_PROJECTS == <<
    [id |-> "a1b2c3d4-e5f6-7890-abcd-ef1234567890", name |-> Name1, description |-> Str(Description1),
     created_at |-> "2025-10-01T09:15:30.000Z", updated_at |-> "2025-10-05T14:22:15.000Z"],
    [id |-> "b2c3d4e5-f6a7-8901-bcde-f12345678901", name |-> Name2, description |-> Str(Description2),
     created_at |-> "2025-09-28T11:30:00.000Z", updated_at |-> "2025-10-04T16:45:22.000Z"],
    [id |-> "c3d4e5f6-a7b8-9012-cdef-123456789012", name |-> Name3, description |-> Str(Description3),
     created_at |-> "2025-09-25T08:00:00.000Z", updated_at |-> "2025-10-03T10:15:30.000Z"],
    [id |-> "d4e5f6a7-b8c9-0123-def1-234567890123", name |-> Name4, description |-> Str(Description4),
     created_at |-> "2025-09-20T14:20:00.000Z", updated_at |-> "2025-10-02T09:30:45.000Z"],
    [id |-> "e5f6a7b8-c9d0-1234-ef12-345678901234", name |-> Name5, description |-> Str(Description5),
     created_at |-> "2025-09-15T10:45:00.000Z", updated_at |-> "2025-10-01T13:20:10.000Z"],
    [id |-> "f6a7b8c9-d0e1-2345-f123-456789012345", name |-> Name6, description |-> None,
     created_at |-> "2025-09-10T16:30:00.000Z", updated_at |-> "2025-09-30T11:55:22.000Z"]
>>

----------------------------------------------------------------------------
(* verify_auth_token *)

BearerPrefix == <<"B", "e", "a", "r", "e", "r", " ">>

ExpiredWord == <<"e", "x", "p", "i", "r", "e", "d">>

StrDetail(msg) == [shape |-> "str", loc |-> <<>>, msg |-> msg, type |-> ""]

\* a one-element list holding one field-error object
ListDetail(loc, msg, type) == [shape |-> "list", loc |-> loc, msg |-> msg, type |-> type]

NoDetail == StrDetail("")

\* token = authorization.replace("Bearer ", "")
TokenOf(authorization) == Remove(authorization.v, BearerPrefix)

\* the detail of the HTTPException(401) raised, NoDetail when True is returned
verify_auth_token(authorization) ==
    IF ~Truthy(authorization)
    THEN StrDetail("Not authenticated")
    ELSE IF ~StartsWith(authorization.v, BearerPrefix)
    THEN StrDetail("Invalid authentication credentials")
    ELSE IF TokenOf(authorization) = <<>> \/ Len(TokenOf(authorization)) < MinTokenLen
    THEN StrDetail("Invalid authentication credentials")
    ELSE IF Contains(Lower(TokenOf(authorization)), ExpiredWord)
    THEN StrDetail("Token has expired")
    ELSE NoDetail

Authenticated(authorization) == verify_auth_token(authorization) = NoDetail

----------------------------------------------------------------------------
(* create_project: the steps of the handler *)

\* mutant: the length limits are applied before strip()
BodyErrorUntrimmed(request) ==
    LET name == request.name
        description == request.description
    IN  IF name = Absent
        THEN ListDetail(<<"body", "name">>, "field required", "value_error.missing")
        ELSE IF ~IsStr(name)
        THEN ListDetail(<<"body", "name">>, "str type expected", "type_error.str")
        ELSE IF Strip(name.v) = <<>>
        THEN ListDetail(<<"body", "name">>, "Project name cannot be empty", "value_error")
        ELSE IF Len(name.v) > MaxNameLen
        THEN ListDetail(<<"body", "name">>, "ensure this value has at most 255 characters",
                        "value_error.any_str.max_length")
        ELSE IF description \in {Absent, None}
        THEN NoDetail
        ELSE IF ~IsStr(description)
        THEN ListDetail(<<"body", "description">>, "str type expected", "type_error.str")
        ELSE IF Len(description.v) > MaxDescriptionLen
        THEN ListDetail(<<"body", "description">>,
                        "ensure this value has at most 1000 characters",
                        "value_error.any_str.max_length")
        ELSE NoDetail

\* the detail of the HTTPException(400) raised by the body checks, NoDetail if none
BodyError(request) ==
    LET name == request.name
        description == request.description
    IN  IF name = Absent
        THEN ListDetail(<<"body", "name">>, "field required", "value_error.missing")
        ELSE IF ~IsStr(name)
        THEN ListDetail(<<"body", "name">>, "str type expected", "type_error.str")
        ELSE IF Strip(name.v) = <<>>
        THEN ListDetail(<<"body", "name">>, "Project name cannot be empty", "value_error")
        ELSE IF Len(Strip(name.v)) > MaxNameLen
        THEN ListDetail(<<"body", "name">>, "ensure this value has at most 255 characters",
                        "value_error.any_str.max_length")
        ELSE IF description \in {Absent, None}
        THEN NoDetail
        ELSE IF ~IsStr(description)
        THEN ListDetail(<<"body", "description">>, "str type expected", "type_error.str")
        ELSE IF Strip(description.v) # <<>> /\ Len(Strip(description.v)) > MaxDescriptionLen
        THEN ListDetail(<<"body", "description">>,
                        "ensure this value has at most 1000 characters",
                        "value_error.any_str.max_length")
        ELSE NoDetail

\* mutant: the name is stored and compared without strip()
UntrimmedName(request) == request.name.v

\* name = name.strip()
TrimmedName(request) == Strip(request.name.v)

\* mutant: the stripped description is stored even when it is empty
TrimmedDescriptionKeepsEmpty(request) ==
    IF ~IsStr(request.description)
    THEN None
    ELSE Str(Strip(request.description.v))

\* description after strip(), the empty string turned into None
TrimmedDescription(request) ==
    IF ~IsStr(request.description) \/ Strip(request.description.v) = <<>>
    THEN None
    ELSE Str(Strip(request.description.v))

\* mutant: the duplicate scan compares names without lower()
NameTakenExact(projs, name) ==
    \E i \in DOMAIN projs : projs[i].name = name

\* a.lower() == b.lower()
EqualLower(a, b) ==
    Len(a) = Len(b) /\ \A k \in 1..Len(a) : LowerChar(a[k]) = LowerChar(b[k])

\* the duplicate scan over MOCK_PROJECTS
NameTaken(projs, name) ==
    \E i \in DOMAIN projs : EqualLower(projs[i].name, name)

\* mutant: the identifier of an existing project is handed out again
Uuid4Reused(n) == "b2c3d4e5-f6a7-8901-bcde-f12345678901"

\* str(uuid.uuid4()): the n-th identifier drawn
Uuid4(n) == "uuid4-" \o ToString(n)

\* datetime.utcnow() rendered as a timestamp string
Timestamp(t) == "utcnow-" \o ToString(t)

\* the clock readings explored (one: no handler reads a timestamp back)
Times == {1}

NewProject(request, n, t) ==
    [id |-> Uuid4(n), name |-> TrimmedName(request),
     description |-> TrimmedDescription(request),
     created_at |-> Timestamp(t), updated_at |-> Timestamp(t)]

\* mutant: MOCK_PROJECTS.append(new_project)
InsertLast(projs, p) == projs \o <<p>>

\* mutant: MOCK_PROJECTS[0] = new_project
Insert0Overwrites(projs, p) == <<p>> \o Tail(projs)

\* MOCK_PROJECTS.insert(0, new_project)
Insert0(projs, p) == <<p>> \o projs

NoBody == [none |-> TRUE]

Respond(op, req, status, detail, body) ==
    [op |-> op, req |-> req, status |-> status, detail |-> detail, body |-> body]

\* mutant: the record is inserted before the duplicate scan, which then
\* finds it
create_project_InsertsFirst(request, authorization) ==
    LET req == [request |-> request, authorization |-> authorization]
        raise(status, detail) ==
            /\ last' = Respond("create_project", req, status, detail, NoBody)
            /\ UNCHANGED <<projects, uuidCalls>>
    IN  IF ~Authenticated(authorization) THEN raise(401, verify_auth_token(authorization))
        ELSE IF BodyError(request) # NoDetail THEN raise(400, BodyError(request))
        ELSE /\ Len(projects) < Len(MOCK_PROJECTS) + MaxCreated
             /\ \E t \in Times : LET new_project == NewProject(request, uuidCalls + 1, t)
                  IN /\ projects' = Insert0(projects, new_project)
                     /\ uuidCalls' = uuidCalls + 1
                     /\ last' = Respond("create_project", req, 409,
                                  StrDetail("A project with this name already exists"),
                                  NoBody)

\* mutant: the duplicate scan runs before the body checks
create_project_ScanFirst(request, authorization) ==
    LET req == [request |-> request, authorization |-> authorization]
        raise(status, detail) ==
            /\ last' = Respond("create_project", req, status, detail, NoBody)
            /\ UNCHANGED <<projects, uuidCalls>>
    IN  IF ~Authenticated(authorization) THEN raise(401, verify_auth_token(authorization))
        ELSE IF IsStr(request.name) /\ NameTaken(projects, TrimmedName(request))
        THEN raise(409, StrDetail("A project with this name already exists"))
        ELSE IF BodyError(request) # NoDetail THEN raise(400, BodyError(request))
        ELSE /\ Len(projects) < Len(MOCK_PROJECTS) + MaxCreated
             /\ \E t \in Times : LET new_project == NewProject(request, uuidCalls + 1, t)
                  IN /\ projects' = Insert0(projects, new_project)
                     /\ uuidCalls' = uuidCalls + 1
                     /\ last' = Respond("create_project", req, 201, NoDetail, new_project)

create_project(request, authorization) ==
    LET req == [request |-> request, authorization |-> authorization]
        raise(status, detail) ==
            /\ last' = Respond("create_project", req, status, detail, NoBody)
            /\ UNCHANGED <<projects, uuidCalls>>
    IN  IF ~Authenticated(authorization)
        THEN raise(401, verify_auth_token(authorization))
        ELSE IF BodyError(request) # NoDetail
        THEN raise(400, BodyError(request))
        ELSE IF NameTaken(projects, TrimmedName(request))
        THEN raise(409, StrDetail("A project with this name already exists"))
        ELSE /\ Len(projects) < Len(MOCK_PROJECTS) + MaxCreated
             /\ \E t \in Times :
                  LET new_project == NewProject(request, uuidCalls + 1, t)
                  IN  /\ projects' = Insert0(projects, new_project)
                      /\ uuidCalls' = uuidCalls + 1
                      /\ last' = Respond("create_project", req, 201, NoDetail, new_project)

----------------------------------------------------------------------------
(* list_projects *)

\* the Query(..., ge=1) / Query(..., ge=1, le=100) declarations of page and size
QueryError(page, size) ==
    IF page < 1
    THEN ListDetail(<<"query", "page">>, "", "")
    ELSE IF size < 1 \/ size > MaxQuerySize
    THEN ListDetail(<<"query", "size">>, "", "")
    ELSE NoDetail

\* search and search.strip()
SearchActive(search) == Truthy(search) /\ Strip(search.v) # <<>>

\* search_term = search.strip().lower()
SearchTerm(search) == Lower(Strip(search.v))

\* mutant: the project's fields are searched without lower()
MatchesExact(p, search_term) ==
    \/ Contains(p.name, search_term)
    \/ /\ Truthy(p.description)
       /\ Contains(p.description.v, search_term)

\* the condition of the list comprehension
Matches(p, search_term) ==
    \/ Contains(Lower(p.name), search_term)
    \/ /\ Truthy(p.description)
       /\ Contains(Lower(p.description.v), search_term)

FilteredProjects(projs, search) ==
    IF SearchActive(search)
    THEN SelectSeq(projs, LAMBDA p : Matches(p, SearchTerm(search)))
    ELSE projs

\* mutant: pages = total // size
PageCountFloor(total, size) == total \div size

\* pages = (total + size - 1) // size if total > 0 else 0
PageCount(total, size) ==
    IF total > 0 THEN (total + size - 1) \div size ELSE 0

\* mutant: start_idx = page * size
PaginateFromNext(filtered, page, size) ==
    Slice(filtered, page * size, page * size + size)

\* filtered_projects[start_idx:end_idx]
Paginate(filtered, page, size) ==
    LET start_idx == (page - 1) * size
        end_idx == start_idx + size
    IN  Slice(filtered, start_idx, end_idx)

list_projects(page, size, search, authorization) ==
    LET req == [page |-> page, size |-> size, search |-> search,
                authorization |-> authorization]
        filtered_projects == FilteredProjects(projects, search)
        total == Len(filtered_projects)
    IN  /\ UNCHANGED <<projects, uuidCalls>>
        /\ IF QueryError(page, size) # NoDetail
           THEN last' = Respond("list_projects", req, 422, QueryError(page, size), NoBody)
           ELSE IF ~Authenticated(authorization)
           THEN last' = Respond("list_projects", req, 401,
                                verify_auth_token(authorization), NoBody)
           ELSE last' = Respond("list_projects", req, 200, NoDetail,
                                [projects |-> Paginate(filtered_projects, page, size),
                                 total |-> total, page |-> page, size |-> size,
                                 pages |-> PageCount(total, size)])

----------------------------------------------------------------------------
(* get_prd *)

\* mutant: the text is attached to the first fixture's id
PrdProjectIdFirst == MOCK_PROJECTS[1].id

PrdProjectId == "b2c3d4e5-f6a7-8901-bcde-f12345678901"

PrdText == "Build me a Restaurant dine in reservation system that gamifies coupons"

get_prd(user_id, project_id, authorization) ==
    LET req == [user_id |-> user_id, project_id |-> project_id,
                authorization |-> authorization]
    IN  /\ UNCHANGED <<projects, uuidCalls>>
        /\ IF ~Authenticated(authorization)
           THEN last' = Respond("get_prd", req, 401, verify_auth_token(authorization), NoBody)
           ELSE last' = Respond("get_prd", req, 200, NoDetail,
                                [text |-> IF project_id = PrdProjectId THEN PrdText ELSE ""])

----------------------------------------------------------------------------
(* login *)

MockJwtPrefix == <<"m", "o", "c", "k", "_", "j", "w", "t", "_">>

\* values secrets.token_urlsafe(32) can return (two of them)
UrlSafeTokens ==
    {Rep("A", 43), <<"e", "x", "p", "i", "r", "e", "d">> \o Rep("-", 36)}

\* values secrets.token_hex(8) can return (one of them)
HexTokens == {Rep("0", 16)}

\* the upper-case form of each character
ToUpper ==
    [c \in UpperSet \cup LowerSet \cup OtherChars |->
        IF c \in LowerSet
        THEN UpperChars[CHOOSE i \in DOMAIN LowerChars : LowerChars[i] = c]
        ELSE c]

\* str.capitalize()
Capitalize(s) ==
    [i \in DOMAIN s |->
        IF i = 1 THEN ToUpper[s[i]]
        ELSE LowerChar(s[i])]

\* username.split('@')[0] if '@' in username else username
RECURSIVE BeforeAt(_)
BeforeAt(s) ==
    IF s = <<>> \/ Head(s) = "@" THEN <<>> ELSE <<Head(s)>> \o BeforeAt(Tail(s))

\* mutant: len(password) <= 3 is rejected
LoginErrorOffByOne(username, password) ==
    IF username = <<>> \/ password = <<>>
    THEN <<400, StrDetail("Username and password are required")>>
    ELSE IF Len(password) <= MinPasswordLen
    THEN <<401, StrDetail("Invalid credentials")>>
    ELSE <<200, NoDetail>>

\* the HTTPException raised by the credential checks: <<status, detail>>, <<200, NoDetail>> if none
LoginError(username, password) ==
    IF username = <<>> \/ password = <<>>
    THEN <<400, StrDetail("Username and password are required")>>
    ELSE IF Len(password) < MinPasswordLen
    THEN <<401, StrDetail("Invalid credentials")>>
    ELSE <<200, NoDetail>>

login(username, password) ==
    LET req == [username |-> username, password |-> password]
        err == LoginError(username, password)
    IN  /\ UNCHANGED <<projects, uuidCalls>>
        /\ IF err[1] # 200
           THEN last' = Respond("login", req, err[1], err[2], NoBody)
           ELSE \E r \in UrlSafeTokens, h \in HexTokens, t \in Times :
                  last' = Respond("login", req, 200, NoDetail,
                            [access_token |-> MockJwtPrefix \o r,
                             token_type |-> "bearer",
                             user |-> [id |-> <<"u", "s", "e", "r", "_">> \o h,
                                       email |-> username,
                                       name |-> Capitalize(BeforeAt(username)),
                                       is_verified |-> TRUE,
                                       created_at |-> Timestamp(t)]])

----------------------------------------------------------------------------
(* Further JSON values, and what Python does with them. *)

\* a number, by its decimal digits
Num(digits) == [t |-> "int", v |-> digits]

\* an array
List(xs) == [t |-> "list", v |-> xs]

\* an object: its members [key, value] in document order
Dict(members) == [t |-> "dict", v |-> members]

IsDict(x) == x.t = "dict"

\* request.get(key, default)
Default(x, default) == IF x = Absent THEN default ELSE x

\* mutant: only None is false
PyTruthyNotNone(x) == x.t # "none"

\* bool(x)
PyTruthy(x) ==
    CASE x.t = "none" -> FALSE
      [] x.t = "int" -> \E i \in DOMAIN x.v : x.v[i] # "0"
      [] OTHER -> Len(x.v) > 0

\* len(x) does not raise TypeError
HasLen(x) == x.t \in {"str", "list", "dict"}

\* e.get(...) does not raise AttributeError for any e that iterating x yields:
\* the entries of a list, the characters of a str, the keys of a dict
AllHaveGet(x) ==
    IF x.t = "list" THEN \A i \in DOMAIN x.v : IsDict(x.v[i]) ELSE Len(x.v) = 0

\* d.get(key, default)
DictGet(d, key, default) ==
    IF \E i \in DOMAIN d.v : d.v[i].key = key
    THEN d.v[CHOOSE i \in DOMAIN d.v : d.v[i].key = key].value
    ELSE default

\* the response to a request whose handler raised an exception that is not
\* an HTTPException
InternalServerError == StrDetail("Internal Server Error")

----------------------------------------------------------------------------
(* upload_prd *)

upload_prd(request) ==
    LET req == [request |-> request]
        text == Default(request.text, Str(<<>>))
        respond(status, detail, body) ==
            last' = Respond("upload_prd", req, status, detail, body)
    IN  /\ UNCHANGED <<projects, uuidCalls>>
        /\ IF ~PyTruthy(text)
           THEN respond(400, StrDetail("PRD text cannot be empty"), NoBody)
           ELSE IF ~IsStr(text)
           THEN respond(500, InternalServerError, NoBody)
           ELSE IF Len(Strip(text.v)) = 0
           THEN respond(400, StrDetail("PRD text cannot be empty"), NoBody)
           ELSE respond(200, NoDetail, Dict(<<>>))

----------------------------------------------------------------------------
(* get_userpersonas, upload_userpersonas *)

mock_personas ==
    <<[id |-> "persona-1", name |-> "System Administrator"],
      [id |-> "persona-2", name |-> "Business Analyst"],
      [id |-> "persona-3", name |-> "End User/Customer"],
      [id |-> "persona-4", name |-> "Developer/Technical User"]>>

\* has_personas = random.choice([True, False]); has_personas = True
HasPersonas(choice) == TRUE

get_userpersonas(user_id, project_id, authorization) ==
    LET req == [user_id |-> user_id, project_id |-> project_id,
                authorization |-> authorization]
    IN  /\ UNCHANGED <<projects, uuidCalls>>
        /\ \E choice \in BOOLEAN :
              LET has_personas == HasPersonas(choice)
              IN  IF has_personas
                  THEN last' = Respond("get_userpersonas", req, 200, NoDetail,
                                 [success |-> TRUE, personas |-> mock_personas,
                                  message |-> "User personas retrieved successfully"])
                  ELSE last' = Respond("get_userpersonas", req, 200, NoDetail,
                                 [success |-> TRUE, personas |-> <<>>,
                                  message |-> "No user personas found"])

upload_userpersonas(request, authorization) ==
    LET req == [request |-> request, authorization |-> authorization]
        selected_personas == Default(request.selected_personas, List(<<>>))
        respond(status, detail, body) ==
            last' = Respond("upload_userpersonas", req, status, detail, body)
    IN  /\ UNCHANGED <<projects, uuidCalls>>
        /\ IF ~HasLen(selected_personas) \/ ~AllHaveGet(selected_personas)
           THEN respond(500, InternalServerError, NoBody)
           ELSE IF ~PyTruthy(selected_personas)
           THEN respond(400, StrDetail("At least one persona must be selected"), NoBody)
           ELSE \E t \in Times :
                  respond(200, NoDetail,
                    [success |-> TRUE,
                     message |-> "Successfully saved "
                                   \o ToString(Len(selected_personas.v))
                                   \o " user persona(s)",
                     data |-> [personas_saved |-> selected_personas,
                               count |-> Len(selected_personas.v),
                               user_id |-> Default(request.user_id, None),
                               project_id |-> Default(request.project_id, None),
                               saved_at |-> Timestamp(t),
                               next_step |-> "brand_design"]])

----------------------------------------------------------------------------
(* get_branddesign, upload_branddesign *)

mock_brand_design(t) ==
    [brandName |-> "TechCorp Solutions",
     logoUrl |-> None,
     colors |-> [primary |-> "#3B82F6", secondary |-> "#1E293B", accent |-> "#8B5CF6",
                 background |-> "#0F172A", foreground |-> "#F8FAFC"],
     fontFamily |-> "Inter",
     brandVoice |-> "Innovation Through Technology",
     tone |-> "Professional",
     timestamp |-> Timestamp(t)]

get_branddesign(user_id, project_id, authorization) ==
    LET req == [user_id |-> user_id, project_id |-> project_id,
                authorization |-> authorization]
    IN  /\ UNCHANGED <<projects, uuidCalls>>
        /\ \E has_brand_design \in BOOLEAN, t \in Times :
              IF has_brand_design
              THEN last' = Respond("get_branddesign", req, 200, NoDetail,
                                   mock_brand_design(t))
              ELSE last' = Respond("get_branddesign", req, 200, NoDetail, Dict(<<>>))

upload_branddesign(request, authorization) ==
    LET req == [request |-> request, authorization |-> authorization]
        brand_name == Default(request.brandName, Str(<<>>))
        colors == Default(request.colors, Dict(<<>>))
        respond(status, detail, body) ==
            last' = Respond("upload_branddesign", req, status, detail, body)
    IN  /\ UNCHANGED <<projects, uuidCalls>>
        /\ IF ~PyTruthy(brand_name)
           THEN respond(400, StrDetail("Brand name is required"), NoBody)
           ELSE IF ~IsStr(brand_name)
           THEN respond(500, InternalServerError, NoBody)
           ELSE IF Len(Strip(brand_name.v)) = 0
           THEN respond(400, StrDetail("Brand name is required"), NoBody)
           ELSE IF ~PyTruthy(colors)
           THEN respond(400, StrDetail("Brand colors are required"), NoBody)
           ELSE \E t \in Times :
                  respond(200, NoDetail,
                    [success |-> TRUE,
                     message |-> "Brand design saved successfully",
                     data |-> [brandName |-> brand_name,
                               logoUrl |-> Default(request.logoUrl, None),
                               colors |-> colors,
                               fontFamily |-> Default(request.fontFamily, Str(<<>>)),
                               brandVoice |-> Default(request.brandVoice, Str(<<>>)),
                               tone |-> Default(request.tone, Str(<<>>)),
                               user_id |-> Default(request.user_id, None),
                               project_id |-> Default(request.project_id, None),
                               saved_at |-> Timestamp(t),
                               next_step |-> "business_logic"]])

----------------------------------------------------------------------------
(* get_thirdparty, upload_thirdparty *)

K_name == <<"n", "a", "m", "e">>
K_category == <<"c", "a", "t", "e", "g", "o", "r", "y">>

S_payment == <<"p", "a", "y", "m", "e", "n", "t">>
S_maps == <<"m", "a", "p", "s">>
S_oauth == <<"o", "a", "u", "t", "h">>
S_sms == <<"s", "m", "s">>
S_email == <<"e", "m", "a", "i", "l">>
S_storage == <<"s", "t", "o", "r", "a", "g", "e">>
S_messaging == <<"m", "e", "s", "s", "a", "g", "i", "n", "g">>

PROVIDERS_JSON ==
    (S_payment :> <<"Stripe", "PayPal", "Square", "Braintree", "Authorize.Net">>)
      @@
    (S_maps :> <<"Google Maps", "Mapbox", "HERE Maps", "OpenStreetMap", "Azure Maps">>)
      @@
    (S_oauth :> <<"Auth0", "Okta", "Firebase Auth", "AWS Cognito", "Keycloak">>)
      @@
    (S_sms :> <<"Twilio", "AWS SNS", "Vonage (Nexmo)", "Plivo", "MessageBird">>)
      @@
    (S_email :> <<"SendGrid", "AWS SES", "Mailgun", "Postmark", "Resend">>)
      @@
    (S_storage :> <<"AWS S3", "Google Cloud Storage", "Azure Blob Storage", "Cloudinary", "Backblaze B2">>)
      @@
    (S_messaging :> <<"Firebase Cloud Messaging", "OneSignal", "Pusher", "AWS SNS", "PubNub">>)

mock_third_party_apis(t) ==
    [apis |->
       <<[name |-> "Payment Processing", category |-> Str(S_payment),
          providers |-> PROVIDERS_JSON[S_payment]],
         [name |-> "Maps & Location Services", category |-> Str(S_maps),
          providers |-> PROVIDERS_JSON[S_maps]],
         [name |-> "Authentication & Authorization", category |-> Str(S_oauth),
          providers |-> PROVIDERS_JSON[S_oauth]],
         [name |-> "SMS & Messaging", category |-> Str(S_sms),
          providers |-> PROVIDERS_JSON[S_sms]],
         [name |-> "Email Services", category |-> Str(S_email),
          providers |-> PROVIDERS_JSON[S_email]],
         [name |-> "Cloud Storage", category |-> Str(S_storage),
          providers |-> PROVIDERS_JSON[S_storage]],
         [name |-> "Push Notifications", category |-> Str(S_messaging),
          providers |-> PROVIDERS_JSON[S_messaging]]>>,
     summary |-> [total |-> 7,
                  categories |-> <<Str(S_payment), Str(S_maps), Str(S_oauth), Str(S_sms), Str(S_email), Str(S_storage), Str(S_messaging)>>],
     analyzed_at |-> Timestamp(t),
     prd_version |-> "1.0.0"]

\* mutant: the handler runs the token check of the project endpoints
get_thirdparty_Authenticated(user_id, project_id, authorization) ==
    LET req == [user_id |-> user_id, project_id |-> project_id,
                authorization |-> authorization]
    IN  /\ UNCHANGED <<projects, uuidCalls>>
        /\ IF ~Authenticated(authorization)
           THEN last' = Respond("get_thirdparty", req, 401,
                                verify_auth_token(authorization), NoBody)
           ELSE \E t \in Times :
                  last' = Respond("get_thirdparty", req, 200, NoDetail,
                                  mock_third_party_apis(t))

get_thirdparty(user_id, project_id, authorization) ==
    LET req == [user_id |-> user_id, project_id |-> project_id,
                authorization |-> authorization]
    IN  /\ UNCHANGED <<projects, uuidCalls>>
        /\ \E t \in Times :
              last' = Respond("get_thirdparty", req, 200, NoDetail,
                              mock_third_party_apis(t))

\* hash(x) does not raise TypeError
Hashable(x) == x.t \notin {"list", "dict"}

\* PROVIDERS_JSON[api_category] if api_category in PROVIDERS_JSON, else []
ProvidersOf(api_category) ==
    IF IsStr(api_category) /\ api_category.v \in DOMAIN PROVIDERS_JSON
    THEN PROVIDERS_JSON[api_category.v]
    ELSE <<>>

\* api.copy() with its "providers" set
EnrichedApi(api) ==
    [api |-> api, providers |-> ProvidersOf(DictGet(api, K_category, Str(<<>>)))]

upload_thirdparty(request, authorization) ==
    LET req == [request |-> request, authorization |-> authorization]
        selected_apis == Default(request.selected_apis, List(<<>>))
        enriched_apis ==
            IF selected_apis.t = "list"
            THEN [i \in DOMAIN selected_apis.v |-> EnrichedApi(selected_apis.v[i])]
            ELSE <<>>
        respond(status, detail, body) ==
            last' = Respond("upload_thirdparty", req, status, detail, body)
    IN  /\ UNCHANGED <<projects, uuidCalls>>
        /\ IF ~HasLen(selected_apis) \/ ~AllHaveGet(selected_apis)
           THEN respond(500, InternalServerError, NoBody)
           ELSE IF \E i \in DOMAIN selected_apis.v :
                      ~Hashable(DictGet(selected_apis.v[i], K_category, Str(<<>>)))
           THEN respond(500, InternalServerError, NoBody)
           ELSE \E t \in Times :
                  respond(200, NoDetail,
                    [success |-> TRUE,
                     message |-> IF Len(enriched_apis) = 0
                                 THEN "Saved with no third-party APIs"
                                 ELSE "Successfully saved " \o ToString(Len(enriched_apis))
                                        \o " third-party API(s)",
                     data |-> [apis_saved |-> enriched_apis,
                               count |-> Len(enriched_apis),
                               user_id |-> Default(request.user_id, None),
                               project_id |-> Default(request.project_id, None),
                               saved_at |-> Timestamp(t),
                               next_step |-> "api_factory"]])

----------------------------------------------------------------------------
(* upload_thirdprovider *)

S_Stripe == <<"S", "t", "r", "i", "p", "e">>
S_PayPal == <<"P", "a", "y", "P", "a", "l">>
S_GoogleMaps == <<"G", "o", "o", "g", "l", "e", " ", "M", "a", "p", "s">>
S_Mapbox == <<"M", "a", "p", "b", "o", "x">>
S_Auth0 == <<"A", "u", "t", "h", "0">>
S_FirebaseAuth == <<"F", "i", "r", "e", "b", "a", "s", "e", " ", "A", "u", "t", "h">>
S_Twilio == <<"T", "w", "i", "l", "i", "o">>
S_SendGrid == <<"S", "e", "n", "d", "G", "r", "i", "d">>
S_AWSS3 == <<"A", "W", "S", " ", "S", "3">>

Key(name, field) == [name |-> name, field |-> field, required |-> TRUE]

\* mutant: a provider outside the table gets no key
KeysRequiredTableOnly(category, provider_name) ==
    IF provider_name = Str(S_Stripe)
    THEN <<Key("Publishable Key", <<"s", "t", "r", "i", "p", "e", "_", "p", "u", "b", "l", "i", "s", "h", "a", "b", "l", "e", "_", "k", "e", "y">>), Key("Secret Key", <<"s", "t", "r", "i", "p", "e", "_", "s", "e", "c", "r", "e", "t", "_", "k", "e", "y">>)>>
    ELSE <<>>

\* key_info["keys_required"] for one selected provider
KeysRequired(category, provider_name) ==
    CASE provider_name = Str(S_Stripe) ->
            <<Key("Publishable Key",
                  <<"s", "t", "r", "i", "p", "e", "_", "p", "u", "b", "l", "i", "s", "h", "a", "b", "l", "e", "_", "k", "e", "y">>),
              Key("Secret Key",
                  <<"s", "t", "r", "i", "p", "e", "_", "s", "e", "c", "r", "e", "t", "_", "k", "e", "y">>)>>
      [] provider_name = Str(S_PayPal) ->
            <<Key("Client ID",
                  <<"p", "a", "y", "p", "a", "l", "_", "c", "l", "i", "e", "n", "t", "_", "i", "d">>),
              Key("Client Secret",
                  <<"p", "a", "y", "p", "a", "l", "_", "c", "l", "i", "e", "n", "t", "_", "s", "e", "c", "r", "e", "t">>)>>
      [] provider_name = Str(S_GoogleMaps) ->
            <<Key("API Key",
                  <<"g", "o", "o", "g", "l", "e", "_", "m", "a", "p", "s", "_", "a", "p", "i", "_", "k", "e", "y">>)>>
      [] provider_name = Str(S_Mapbox) ->
            <<Key("Access Token",
                  <<"m", "a", "p", "b", "o", "x", "_", "a", "c", "c", "e", "s", "s", "_", "t", "o", "k", "e", "n">>)>>
      [] provider_name = Str(S_Auth0) ->
            <<Key("Domain",
                  <<"a", "u", "t", "h", "0", "_", "d", "o", "m", "a", "i", "n">>),
              Key("Client ID",
                  <<"a", "u", "t", "h", "0", "_", "c", "l", "i", "e", "n", "t", "_", "i", "d">>),
              Key("Client Secret",
                  <<"a", "u", "t", "h", "0", "_", "c", "l", "i", "e", "n", "t", "_", "s", "e", "c", "r", "e", "t">>)>>
      [] provider_name = Str(S_FirebaseAuth) ->
            <<Key("API Key",
                  <<"f", "i", "r", "e", "b", "a", "s", "e", "_", "a", "p", "i", "_", "k", "e", "y">>),
              Key("Project ID",
                  <<"f", "i", "r", "e", "b", "a", "s", "e", "_", "p", "r", "o", "j", "e", "c", "t", "_", "i", "d">>)>>
      [] provider_name = Str(S_Twilio) ->
            <<Key("Account SID",
                  <<"t", "w", "i", "l", "i", "o", "_", "a", "c", "c", "o", "u", "n", "t", "_", "s", "i", "d">>),
              Key("Auth Token",
                  <<"t", "w", "i", "l", "i", "o", "_", "a", "u", "t", "h", "_", "t", "o", "k", "e", "n">>)>>
      [] provider_name = Str(S_SendGrid) ->
            <<Key("API Key",
                  <<"s", "e", "n", "d", "g", "r", "i", "d", "_", "a", "p", "i", "_", "k", "e", "y">>)>>
      [] provider_name = Str(S_AWSS3) ->
            <<Key("Access Key ID",
                  <<"a", "w", "s", "_", "a", "c", "c", "e", "s", "s", "_", "k", "e", "y", "_", "i", "d">>),
              Key("Secret Access Key",
                  <<"a", "w", "s", "_", "s", "e", "c", "r", "e", "t", "_", "a", "c", "c", "e", "s", "s", "_", "k", "e", "y">>),
              Key("Region",
                  <<"a", "w", "s", "_", "r", "e", "g", "i", "o", "n">>),
              Key("Bucket Name",
                  <<"a", "w", "s", "_", "b", "u", "c", "k", "e", "t", "_", "n", "a", "m", "e">>)>>
      [] OTHER ->
            <<Key("API Key", category \o <<"_", "a", "p", "i", "_", "k", "e", "y">>)>>

KeyInfo(category, provider_name) ==
    [category |-> category, provider |-> provider_name,
     keys_required |-> KeysRequired(category, provider_name)]

upload_thirdprovider(request, authorization) ==
    LET req == [request |-> request, authorization |-> authorization]
        selected_providers == Default(request.selected_providers, Dict(<<>>))
        respond(status, detail, body) ==
            last' = Respond("upload_thirdprovider", req, status, detail, body)
    IN  /\ UNCHANGED <<projects, uuidCalls>>
        /\ IF ~HasLen(selected_providers)
           THEN respond(500, InternalServerError, NoBody)
           ELSE IF ~PyTruthy(selected_providers)
           THEN respond(400, StrDetail("At least one provider must be selected"), NoBody)
           ELSE IF ~IsDict(selected_providers)
           THEN respond(500, InternalServerError, NoBody)
           ELSE \E t \in Times :
                  respond(200, NoDetail,
                    [success |-> TRUE,
                     message |-> "Successfully saved "
                                   \o ToString(Len(selected_providers.v))
                                   \o " provider(s)",
                     data |-> [providers_saved |-> selected_providers,
                               count |-> Len(selected_providers.v),
                               api_key_requirements |->
                                   [i \in DOMAIN selected_providers.v |->
                                       KeyInfo(selected_providers.v[i].key,
                                               selected_providers.v[i].value)],
                               user_id |-> Default(request.user_id, None),
                               project_id |-> Default(request.project_id, None),
                               saved_at |-> Timestamp(t),
                               next_step |-> "enter_api_keys"]])

----------------------------------------------------------------------------
(* The requests explored by Spec: a sequence of requests to the project    *)
(* endpoints, each served to completion before the next one.               *)

S_Token == <<"t", "o", "k", "e", "n", "-", "1", "2", "3", "4", "5">>
S_Foo == <<"F", "o", "o">>
S_foo == <<" ", "f", "o", "o", " ">>
S_Bar == <<"B", "a", "r">>
S_bar == <<" ", "b", "a", "r", "\n">>
S_Baz == <<"B", "a", "z">>

ValidAuth == Str(BearerPrefix \o S_Token)

Headers == {None, ValidAuth}

Names ==
    {Str(S_Foo), Str(S_foo), Str(S_Bar), Str(S_Baz), Str(Lower(Name2)), Str(<<" ">>)}

Descriptions == {Absent, Str(S_bar), NotStr}

Requests == [name : Names, description : Descriptions]

Searches == {None, Str(S_foo)}

NoInput == [op |-> "none"]

\* the connections that can have a create-project request in flight at the
\* same time
MaxClients == 3

Clients == 1..MaxClients

\* a connection without request
Idle == [state |-> "idle"]

NoneInFlight == [c \in Clients |-> Idle]

Init ==
    /\ projects = MOCK_PROJECTS
    /\ uuidCalls = 0
    /\ last = [op |-> "none"]
    /\ input = NoInput
    /\ items = <<>>
    /\ nextItemId = 1
    /\ inflight = NoneInFlight

CreateProject ==
    /\ \E request \in Requests, authorization \in Headers :
          create_project(request, authorization)
    /\ UNCHANGED <<input, items, nextItemId, inflight>>

ListProjects ==
    /\ \E page \in 1..2, size \in {2, DefaultSize}, search \in Searches,
          authorization \in Headers :
          list_projects(page, size, search, authorization)
    /\ UNCHANGED <<input, items, nextItemId, inflight>>

UserIds == {"u1", "u2"}

GetPrd ==
    /\ \E user_id \in UserIds, project_id \in {PrdProjectId, Uuid4(1)},
          authorization \in Headers :
          get_prd(user_id, project_id, authorization)
    /\ UNCHANGED <<input, items, nextItemId, inflight>>

Next == CreateProject \/ ListProjects \/ GetPrd

Spec == Init /\ [][Next]_vars

----------------------------------------------------------------------------
(* The requests explored by SpecRequest: one request, drawn from a wider   *)
(* set, served against the initial project list.                           *)

RECURSIVE Concat(_)
Concat(ss) == IF ss = <<>> THEN <<>> ELSE Head(ss) \o Concat(Tail(ss))

HeaderPieces ==
    {BearerPrefix, Lower(BearerPrefix), <<"1", "2", "3", "4", "5">>,
     <<"e", "x", "p">>, <<"i", "r", "e", "d">>, <<"E", "X", "P", "I", "R", "E", "D">>}

\* None and every concatenation of at most MaxPieces pieces
WideHeaders ==
    {None} \cup
    UNION {{Str(Concat(ss)) : ss \in [1..n -> HeaderPieces]} : n \in 0..MaxPieces}

WideNames ==
    {Absent, None, NotStr, Str(<<>>), Str(<<" ", "\t">>),
     Str(S_Foo), Str(S_foo), Str(Lower(Name2)), Str(<<"\n">> \o Name6 \o <<" ">>),
     Str(Rep("a", MaxNameLen)), Str(Rep("a", MaxNameLen + 1)),
     Str(<<" ">> \o Rep("a", MaxNameLen) \o <<" ">>),
     Str(<<" ">> \o Rep("a", MaxNameLen + 1))}

WideDescriptions ==
    {Absent, None, NotStr, Str(<<>>), Str(<<" ", " ">>), Str(S_Bar), Str(S_bar),
     Str(Rep("d", MaxDescriptionLen)), Str(Rep("d", MaxDescriptionLen + 1)),
     Str(<<" ">> \o Rep("d", MaxDescriptionLen) \o <<" ">>),
     Str(<<" ">> \o Rep("d", MaxDescriptionLen + 1))}

S_portal == <<"p", "o", "r", "t", "a", "l">>
S_PLATFORM == <<"P", "L", "A", "T", "F", "O", "R", "M", " ">>
S_system == <<" ", "S", "y", "s", "t", "e", "m">>
S_management == <<"m", "a", "n", "a", "g", "e", "m", "e", "n", "t">>

WideSearches ==
    {None, Str(<<>>), Str(<<" ", " ">>), Str(S_portal), Str(S_PLATFORM), Str(S_system),
     Str(S_management), Str(<<"e">>), Str(<<"z", "z">>), Str(<<"-">>)}

WideSizes == (0..MaxSize) \cup {6, DefaultSize, MaxQuerySize, MaxQuerySize + 1}

S_bob == <<"b", "o", "B", "@", "x", ".", "i", "o">>

Usernames == {<<>>, <<"a">>, <<"A", "l">>, S_bob}

Passwords == {<<>>, <<" ">>, <<"a", "b">>, <<"a", "b", "c">>, S_Token}

ProjectIds == {PrdProjectId, MOCK_PROJECTS[1].id, ""}

\* JSON values of every type, empty and not
JsonValues ==
    {Absent, None, Str(<<>>), Str(<<" ", "\n">>), Str(S_Foo), Str(S_foo),
     Num(<<"0">>), Num(<<"7">>), List(<<>>), List(<<Str(S_Foo)>>), Dict(<<>>),
     Dict(<<[key |-> K_name, value |-> Str(S_Foo)]>>)}

\* entries of a selected_personas or selected_apis array
Entries ==
    {Dict(<<>>), Dict(<<[key |-> K_name, value |-> Str(S_Foo)]>>),
     Dict(<<[key |-> K_category, value |-> Str(S_payment)]>>),
     Dict(<<[key |-> K_name, value |-> Str(S_Bar)],
            [key |-> K_category, value |-> Str(S_Foo)]>>),
     Dict(<<[key |-> K_category, value |-> List(<<>>)]>>),
     Str(S_Foo), Num(<<"7">>), None}

Selections ==
    JsonValues \cup
    UNION {{List(xs) : xs \in [1..n -> Entries]} : n \in 1..MaxSelected}

Colors ==
    {Absent, None, Dict(<<>>), Str(S_Foo), Num(<<"0">>),
     Dict(<<[key |-> <<"p", "r", "i", "m", "a", "r", "y">>,
             value |-> Str(<<"#", "0", "0", "0">>)]>>)}

ProviderNames == {Str(S_Stripe), Str(S_GoogleMaps), Str(S_AWSS3), Str(S_Foo), Num(<<"7">>)}

\* objects of 1..MaxSelected members with distinct keys
ProviderMappings ==
    UNION {{Dict([i \in 1..n |-> [key |-> ks[i], value |-> vs[i]]]) :
               ks \in {f \in [1..n -> {S_payment, S_maps, S_storage}] :
                          \A i, j \in 1..n : f[i] = f[j] => i = j},
               vs \in [1..n -> ProviderNames]} : n \in 1..MaxSelected}

OptionalIds == {None, Str(<<"u", "1">>)}

MemberIds == {Absent, Str(<<"u", "1">>)}

\* a body that every upload handler of the persona, brand and third-party
\* steps accepts
FullRequest ==
    [selected_personas |-> List(<<Dict(<<[key |-> K_name, value |-> Str(S_Foo)]>>)>>),
     brandName |-> Str(S_Foo), logoUrl |-> Absent,
     colors |-> Dict(<<[key |-> <<"p", "r", "i", "m", "a", "r", "y">>,
                        value |-> Str(<<"#", "0", "0", "0">>)]>>),
     fontFamily |-> Absent, brandVoice |-> Absent, tone |-> Absent,
     selected_apis |-> List(<<Dict(<<[key |-> K_category, value |-> Str(S_payment)]>>)>>),
     selected_providers |-> Dict(<<[key |-> S_payment, value |-> Str(S_Stripe)]>>),
     user_id |-> Str(<<"u", "1">>), project_id |-> Absent]

WideInputs ==
    [op : {"create_project"}, request : [name : WideNames, description : WideDescriptions],
     authorization : Headers]
    \cup [op : {"create_project"}, request: [name : {Str(S_Foo)}, description : {Absent}],
          authorization : WideHeaders]
    \cup [op : {"list_projects"}, page : 0..MaxPage, size : WideSizes,
          search : WideSearches, authorization : Headers]
    \cup [op : {"list_projects"}, page : {1}, size : {DefaultSize}, search : {None},
          authorization : WideHeaders]
    \cup [op : {"get_prd"}, user_id : UserIds, project_id : ProjectIds,
          authorization : WideHeaders]
    \cup [op : {"login"}, username : Usernames, password : Passwords]
    \cup [op : {"upload_prd"}, request : [text : JsonValues]]
    \cup [op : {"get_userpersonas", "get_branddesign", "get_thirdparty"},
          user_id : OptionalIds, project_id : OptionalIds, authorization : WideHeaders]
    \cup [op : {"upload_userpersonas"},
          request : [selected_personas : Selections, user_id : MemberIds,
                     project_id : {Absent}],
          authorization : Headers]
    \cup [op : {"upload_branddesign"},
          request : [brandName : JsonValues, logoUrl : {Absent}, colors : Colors,
                     fontFamily : {Absent, Str(S_Foo)}, brandVoice : {Absent},
                     tone : {Absent}, user_id : {Absent}, project_id : MemberIds],
          authorization : Headers]
    \cup [op : {"upload_thirdparty"},
          request : [selected_apis : Selections, user_id : {Absent},
                     project_id : MemberIds],
          authorization : Headers]
    \cup [op : {"upload_thirdprovider"},
          request : [selected_providers : JsonValues \cup ProviderMappings,
                     user_id : MemberIds, project_id : {Absent}],
          authorization : Headers]
    \cup [op : {"upload_userpersonas", "upload_branddesign", "upload_thirdparty",
                "upload_thirdprovider"},
          request : {FullRequest}, authorization : WideHeaders]

InitRequest ==
    /\ projects = MOCK_PROJECTS
    /\ uuidCalls = 0
    /\ last = [op |-> "none"]
    /\ input \in WideInputs
    /\ items = <<>>
    /\ nextItemId = 1
    /\ inflight = NoneInFlight

ServeCreateProject ==
    /\ input.op = "create_project"
    /\ create_project(input.request, input.authorization)
    /\ input' = NoInput
    /\ UNCHANGED <<items, nextItemId, inflight>>

ServeListProjects ==
    /\ input.op = "list_projects"
    /\ list_projects(input.page, input.size, input.search, input.authorization)
    /\ input' = NoInput
    /\ UNCHANGED <<items, nextItemId, inflight>>

ServeGetPrd ==
    /\ input.op = "get_prd"
    /\ get_prd(input.user_id, input.project_id, input.authorization)
    /\ input' = NoInput
    /\ UNCHANGED <<items, nextItemId, inflight>>

ServeLogin ==
    /\ input.op = "login"
    /\ login(input.username, input.password)
    /\ input' = NoInput
    /\ UNCHANGED <<items, nextItemId, inflight>>

ServeUploadPrd ==
    /\ input.op = "upload_prd"
    /\ upload_prd(input.request)
    /\ input' = NoInput
    /\ UNCHANGED <<items, nextItemId, inflight>>

ServeGetUserPersonas ==
    /\ input.op = "get_userpersonas"
    /\ get_userpersonas(input.user_id, input.project_id, input.authorization)
    /\ input' = NoInput
    /\ UNCHANGED <<items, nextItemId, inflight>>

ServeUploadUserPersonas ==
    /\ input.op = "upload_userpersonas"
    /\ upload_userpersonas(input.request, input.authorization)
    /\ input' = NoInput
    /\ UNCHANGED <<items, nextItemId, inflight>>

ServeGetBrandDesign ==
    /\ input.op = "get_branddesign"
    /\ get_branddesign(input.user_id, input.project_id, input.authorization)
    /\ input' = NoInput
    /\ UNCHANGED <<items, nextItemId, inflight>>

ServeUploadBrandDesign ==
    /\ input.op = "upload_branddesign"
    /\ upload_branddesign(input.request, input.authorization)
    /\ input' = NoInput
    /\ UNCHANGED <<items, nextItemId, inflight>>

ServeGetThirdParty ==
    /\ input.op = "get_thirdparty"
    /\ get_thirdparty(input.user_id, input.project_id, input.authorization)
    /\ input' = NoInput
    /\ UNCHANGED <<items, nextItemId, inflight>>

ServeUploadThirdParty ==
    /\ input.op = "upload_thirdparty"
    /\ upload_thirdparty(input.request, input.authorization)
    /\ input' = NoInput
    /\ UNCHANGED <<items, nextItemId, inflight>>

ServeUploadThirdProvider ==
    /\ input.op = "upload_thirdprovider"
    /\ upload_thirdprovider(input.request, input.authorization)
    /\ input' = NoInput
    /\ UNCHANGED <<items, nextItemId, inflight>>

NextRequest ==
    \/ ServeCreateProject \/ ServeListProjects \/ ServeGetPrd \/ ServeLogin
    \/ ServeUploadPrd
    \/ ServeGetUserPersonas \/ ServeUploadUserPersonas
    \/ ServeGetBrandDesign \/ ServeUploadBrandDesign
    \/ ServeGetThirdParty \/ ServeUploadThirdParty \/ ServeUploadThirdProvider

SpecRequest == InitRequest /\ [][NextRequest]_vars

----------------------------------------------------------------------------
(* The item list of the legacy variant (GET/POST/PUT/DELETE /items), as the *)
(* specification describes it: records with an auto-incrementing integer   *)
(* id, looked up by a linear scan, ids never reused after deletion.        *)

HasItem(its, item_id) == \E i \in DOMAIN its : its[i].id = item_id

\* the first item with this id, found by a scan from the front
FindItem(its, item_id) == its[CHOOSE i \in DOMAIN its :
                                /\ its[i].id = item_id
                                /\ \A j \in 1..(i - 1) : its[j].id # item_id]

ItemNotFound == StrDetail("Item not found")

\* mutant: the next id is one more than the number of items in the list
NextIdFromLength(its, counter) == Len(its) + 1

\* the next integer id: a counter that deletions do not move back
NextId(its, counter) == counter

ItemNames == {"a", "b"}

\* the ids that can have been assigned, and one that cannot
ItemIds == 1..(MaxItems + 1)

\* GET /items
GetItems ==
    /\ last' = Respond("get_items", [none |-> TRUE], 200, NoDetail, items)
    /\ UNCHANGED <<projects, uuidCalls, input, items, nextItemId, inflight>>

\* GET /items/{item_id}
GetItem ==
    \E item_id \in ItemIds :
        LET req == [item_id |-> item_id]
        IN  /\ IF HasItem(items, item_id)
               THEN last' = Respond("get_item", req, 200, NoDetail,
                                    FindItem(items, item_id))
               ELSE last' = Respond("get_item", req, 404, ItemNotFound, NoBody)
            /\ UNCHANGED <<projects, uuidCalls, input, items, nextItemId, inflight>>

\* POST /items
CreateItem ==
    /\ nextItemId <= MaxItems
    /\ \E name \in ItemNames, t \in Times :
          LET new_item == [id |-> NextId(items, nextItemId), name |-> name,
                           created_at |-> Timestamp(t)]
          IN  /\ items' = Append(items, new_item)
              /\ nextItemId' = nextItemId + 1
              /\ last' = Respond("create_item", [name |-> name], 201, NoDetail, new_item)
    /\ UNCHANGED <<projects, uuidCalls, input, inflight>>

\* PUT /items/{item_id}
UpdateItem ==
    \E item_id \in ItemIds, name \in ItemNames :
        LET req == [item_id |-> item_id, name |-> name]
        IN  /\ IF HasItem(items, item_id)
               THEN LET old == FindItem(items, item_id)
                        updated == [id |-> old.id, name |-> name,
                                    created_at |-> old.created_at]
                    IN  /\ items' = [i \in DOMAIN items |->
                                        IF items[i] = old THEN updated ELSE items[i]]
                        /\ last' = Respond("update_item", req, 200, NoDetail, updated)
               ELSE /\ last' = Respond("update_item", req, 404, ItemNotFound, NoBody)
                    /\ UNCHANGED items
            /\ UNCHANGED <<projects, uuidCalls, input, nextItemId, inflight>>

\* DELETE /items/{item_id}
DeleteItem ==
    \E item_id \in ItemIds :
        LET req == [item_id |-> item_id]
        IN  /\ IF HasItem(items, item_id)
               THEN /\ items' = SelectSeq(items,
                                   LAMBDA it : it # FindItem(items, item_id))
                    /\ last' = Respond("delete_item", req, 200, NoDetail, NoBody)
               ELSE /\ last' = Respond("delete_item", req, 404, ItemNotFound, NoBody)
                    /\ UNCHANGED items
            /\ UNCHANGED <<projects, uuidCalls, input, nextItemId, inflight>>

NextItems == GetItems \/ GetItem \/ CreateItem \/ UpdateItem \/ DeleteItem

SpecItems == Init /\ [][NextItems]_vars

----------------------------------------------------------------------------
(* Concurrent create-project requests.  uvicorn.run(app) serves every      *)
(* connection on one event loop; create_project is a coroutine function    *)
(* whose body contains no await, so the loop runs the body of one request  *)
(* from its first statement to its return or raise before it runs anything *)
(* of another request.  Requests arrive in any order and are handled in    *)
(* any order.                                                              *)

ConcurrentRequests ==
    [request : [name : {Str(S_Foo), Str(S_foo), Str(S_Bar)}, description : {Absent}],
     authorization : Headers]

\* a request of connection c arrives and waits for the event loop
Receive(c) ==
    /\ inflight[c] = Idle
    /\ \E r \in ConcurrentRequests :
          inflight' = [inflight EXCEPT ![c] =
                          [state |-> "pending", request |-> r.request,
                           authorization |-> r.authorization]]
    /\ UNCHANGED <<projects, uuidCalls, last, input, items, nextItemId>>

\* mutant: the handler gives up the event loop between the duplicate scan
\* and the insertion
HandleWithSuspension(c) ==
    \/ /\ inflight[c].state = "pending"
       /\ Authenticated(inflight[c].authorization)
       /\ BodyError(inflight[c].request) = NoDetail
       /\ ~NameTaken(projects, TrimmedName(inflight[c].request))
       /\ inflight' = [inflight EXCEPT ![c].state = "scanned"]
       /\ UNCHANGED <<projects, uuidCalls, last, input, items, nextItemId>>
    \/ /\ inflight[c].state = "pending"
       /\ create_project(inflight[c].request, inflight[c].authorization)
       /\ last'.status # 201
       /\ inflight' = [inflight EXCEPT ![c] =
                          [state |-> "answered", request |-> @.request,
                           authorization |-> @.authorization,
                           status |-> last'.status]]
       /\ UNCHANGED <<input, items, nextItemId>>
    \/ /\ inflight[c].state = "scanned"
       /\ Len(projects) < Len(MOCK_PROJECTS) + MaxCreated
       /\ \E t \in Times :
            LET new_project == NewProject(inflight[c].request, uuidCalls + 1, t)
            IN  /\ projects' = Insert0(projects, new_project)
                /\ uuidCalls' = uuidCalls + 1
                /\ last' = Respond("create_project",
                                   [request |-> inflight[c].request,
                                    authorization |-> inflight[c].authorization],
                                   201, NoDetail, new_project)
       /\ inflight' = [inflight EXCEPT ![c] =
                          [state |-> "answered", request |-> @.request,
                           authorization |-> @.authorization, status |-> 201]]
       /\ UNCHANGED <<input, items, nextItemId>>

\* the event loop runs the handler of connection c's request to its end
Handle(c) ==
    /\ inflight[c].state = "pending"
    /\ create_project(inflight[c].request, inflight[c].authorization)
    /\ inflight' = [inflight EXCEPT ![c] =
                       [state |-> "answered", request |-> @.request,
                        authorization |-> @.authorization,
                        status |-> last'.status]]
    /\ UNCHANGED <<input, items, nextItemId>>

NextConcurrent == \E c \in Clients : Receive(c) \/ Handle(c)

SpecConcurrent == Init /\ [][NextConcurrent]_vars

----------------------------------------------------------------------------
(* Vocabulary of the properties. *)

IsCreate(r) == r.op = "create_project"

IsList(r) == r.op = "list_projects"

IsLogin(r) == r.op = "login"

\* some project of projs has a name equal to name ignoring letter case
SameNameIn(projs, name) ==
    \E i \in DOMAIN projs :
        /\ Len(projs[i].name) = Len(name)
        /\ Lower(projs[i].name) = Lower(name)

\* the request r passed the token check and the body checks
PassedChecks(r) == r.status \notin {401, 400}

----------------------------------------------------------------------------
(* Properties of the project list under sequences of requests (Spec). *)

\* C1 (as stated): every create-project request whose name equals, ignoring
\* letter case, the name of a project already in the list yields 409.
C1_AnyDuplicateIs409 ==
    [][(/\ IsCreate(last')
        /\ IsStr(last'.req.request.name)
        /\ SameNameIn(projects, last'.req.request.name.v))
       => last'.status = 409]_vars

\* C1 (amended): a create-project request that passes the token check and the
\* body validation and whose name equals, ignoring letter case, the name of a
\* project already in the list yields 409 and leaves the list as it was.
C1_CheckedDuplicateIs409 ==
    [][(/\ IsCreate(last')
        /\ PassedChecks(last')
        /\ SameNameIn(projects, last'.req.request.name.v))
       => (last'.status = 409 /\ projects' = projects)]_vars

\* C1 witness: a 409 for a name that differs in letter case from the stored one.
C1_Witness ==
    /\ IsCreate(last)
    /\ last.status = 409
    /\ \E i \in DOMAIN projects :
          /\ projects[i].name # last.req.request.name.v
          /\ Lower(projects[i].name) = Lower(last.req.request.name.v)

\* C2 (as stated): a create-project request whose name is not in the list
\* returns 201, and one whose name is in the list (any letter case) returns 409.
C2_FirstIs201LaterIs409 ==
    [][(IsCreate(last') /\ IsStr(last'.req.request.name))
       => IF SameNameIn(projects, last'.req.request.name.v)
          THEN last'.status = 409
          ELSE last'.status = 201]_vars

\* C2 (amended): names never leave the list; a create-project request that
\* passes the token check and the body validation returns 201 and puts its
\* trimmed name in the list when no project has that trimmed name ignoring
\* letter case, and returns 409 when one has: so the first such request for a
\* name returns 201 and every later one, in any letter case, returns 409.
C2_First201ThenAlways409 ==
    [][/\ \A i \in DOMAIN projects : \E j \in DOMAIN projects' :
              projects'[j].name = projects[i].name
       /\ (IsCreate(last') /\ PassedChecks(last'))
          => LET name == Strip(last'.req.request.name.v)
             IN  IF SameNameIn(projects, name)
                 THEN last'.status = 409
                 ELSE last'.status = 201 /\ SameNameIn(projects', name)]_vars

\* C2 witness: a 409 against a project that an earlier request created, after
\* a request of another kind.
C2_Witness ==
    /\ IsCreate(last)
    /\ last.status = 409
    /\ uuidCalls = MaxCreated
    /\ \E i \in 1..uuidCalls :
          Lower(projects[i].name) = Lower(Strip(last.req.request.name.v))

\* C3: no two projects of the list have names that are equal ignoring case.
C3_NamesUniqueIgnoringCase ==
    \A i, j \in DOMAIN projects :
        i # j => Lower(projects[i].name) # Lower(projects[j].name)

\* C3 witness: a list-projects request served after two projects were created.
C3_Witness ==
    /\ IsList(last)
    /\ last.status = 200
    /\ Len(projects) = Len(MOCK_PROJECTS) + MaxCreated

\* C8: a 201 returns a record with an id no project had, the trimmed name and
\* created_at = updated_at, and the list becomes that record followed by the
\* previous list.
C8_CreatedRecordPrepended ==
    [][(IsCreate(last') /\ last'.status = 201)
       => /\ projects' = <<last'.body>> \o projects
          /\ last'.body.name = Strip(last'.req.request.name.v)
          /\ last'.body.created_at = last'.body.updated_at
          /\ \A i \in DOMAIN projects : projects[i].id # last'.body.id]_vars

\* C8 witness: the second created record, whose name was trimmed, heads the list.
C8_Witness ==
    /\ IsCreate(last)
    /\ last.status = 201
    /\ uuidCalls = MaxCreated
    /\ last.body.name # last.req.request.name.v
    /\ Head(projects) = last.body

----------------------------------------------------------------------------
(* Properties of one request served against the initial list (SpecRequest). *)

\* C4: for a list-projects request with page >= 1 and 1 <= size <= 100, the
\* returned pages is the least n with n * size >= total (that is,
\* ceil(total/size)), and is 0 when total is 0.
C4_PagesIsCeiling ==
    (IsList(last) /\ last.status = 200)
    => LET total == last.body.total
           size == last.req.size
           pages == last.body.pages
       IN  /\ last.req.page >= 1 /\ size >= 1 /\ size <= MaxQuerySize
           /\ pages >= 0
           /\ pages * size >= total
           /\ (pages - 1) * size < total
           /\ (total = 0 => pages = 0)

\* C4 witness: a search leaves 3 of the 6 projects and size 2 gives 2 pages,
\* the last one partly filled.
C4_Witness ==
    /\ IsList(last)
    /\ last.status = 200
    /\ IsStr(last.req.search)
    /\ last.body.total = 3
    /\ last.req.size = 2
    /\ last.body.pages = 2

\* C5: the returned projects are the filtered list's items at the 1-based
\* positions (page-1)*size+1 .. min(page*size, total), in order; none when
\* page > pages, and never more than size.
C5_PageIsContiguousRun ==
    (IsList(last) /\ last.status = 200)
    => LET filtered == FilteredProjects(projects, last.req.search)
           total == Len(filtered)
           page == last.req.page
           size == last.req.size
           first == (page - 1) * size + 1
           final == IF page * size < total THEN page * size ELSE total
           got == last.body.projects
       IN  /\ Len(got) = (IF final >= first THEN final - first + 1 ELSE 0)
           /\ \A k \in 1..Len(got) : got[k] = filtered[first + k - 1]
           /\ (page > last.body.pages => got = <<>>)
           /\ Len(got) <= size

\* C5 witness: page=2, size=2 over the 6 projects returns items 3 and 4, pages=3.
C5_Witness ==
    /\ IsList(last)
    /\ last.status = 200
    /\ last.req.page = 2
    /\ last.req.size = 2
    /\ last.body.total = 6
    /\ last.body.pages = 3
    /\ last.body.projects = <<MOCK_PROJECTS[3], MOCK_PROJECTS[4]>>

\* the token check as C6 states it: the header is present, has the form
\* "Bearer <token>", and what follows the prefix has length >= 10 and does not
\* contain "expired"
BearerTokenAccepted(authorization) ==
    /\ IsStr(authorization)
    /\ StartsWith(authorization.v, BearerPrefix)
    /\ LET token == SubSeq(authorization.v, Len(BearerPrefix) + 1, Len(authorization.v))
       IN  Len(token) >= MinTokenLen /\ ~Contains(token, ExpiredWord)

\* C6: a request to list projects, create project or get_prd passes the token
\* check if and only if its Authorization header is accepted as C6 states, and
\* gets 401 otherwise.
C6_PassesIffBearerToken ==
    (last.op \in {"list_projects", "create_project", "get_prd"} /\ last.status # 422)
    => (last.status # 401 <=> BearerTokenAccepted(last.req.authorization))

\* C7 (as stated): a create-project request past the token check yields 400
\* with a list of field errors exactly when the name is missing, not a string,
\* empty or longer than 255 characters after trimming, or the description is
\* present and is not a string or is longer than 1000 characters after trimming.
C7_400IffInvalidBody ==
    (IsCreate(last) /\ last.status # 401)
    => LET name == last.req.request.name
           description == last.req.request.description
           invalid ==
               \/ name = Absent
               \/ ~IsStr(name)
               \/ Strip(name.v) = <<>>
               \/ Len(Strip(name.v)) > MaxNameLen
               \/ /\ description # Absent
                  /\ \/ ~IsStr(description)
                     \/ Len(Strip(description.v)) > MaxDescriptionLen
       IN  /\ invalid <=> (last.status = 400 /\ last.detail.shape = "list")
           /\ ~invalid <=> last.status \in {201, 409}

\* C7 (amended): ... or the description is present, is not null, and is not a
\* string or is longer than 1000 characters after trimming; a null description
\* passes validation like a missing one.
C7_400IffInvalidNonNullBody ==
    (IsCreate(last) /\ last.status # 401)
    => LET name == last.req.request.name
           description == last.req.request.description
           invalid ==
               \/ name = Absent
               \/ ~IsStr(name)
               \/ Strip(name.v) = <<>>
               \/ Len(Strip(name.v)) > MaxNameLen
               \/ /\ description \notin {Absent, None}
                  /\ \/ ~IsStr(description)
                     \/ Len(Strip(description.v)) > MaxDescriptionLen
       IN  /\ invalid <=> (last.status = 400 /\ last.detail.shape = "list")
           /\ ~invalid <=> last.status \in {201, 409}

\* C7 witness: a 400 for a description that is too long only after trimming,
\* with a name of exactly 255 characters after trimming.
C7_Witness ==
    /\ IsCreate(last)
    /\ last.status = 400
    /\ last.detail.shape = "list"
    /\ last.detail.loc = <<"body", "description">>
    /\ IsStr(last.req.request.description)
    /\ Len(Strip(last.req.request.description.v)) = MaxDescriptionLen + 1
    /\ Len(last.req.request.name.v) > MaxNameLen
    /\ Len(Strip(last.req.request.name.v)) = MaxNameLen

\* C9 (as stated): a login whose password has length < 3 yields 401; any other
\* login with a non-empty username and password yields 200 with an
\* access_token that starts with "mock_jwt_".
C9_ShortPasswordIs401 ==
    IsLogin(last)
    => /\ Len(last.req.password) < MinPasswordLen => last.status = 401
       /\ (/\ Len(last.req.password) >= MinPasswordLen
           /\ last.req.username # <<>>)
          => (last.status = 200 /\ StartsWith(last.body.access_token, MockJwtPrefix))

\* C9 (amended): a login with a non-empty username and a non-empty password of
\* length < 3 yields 401; any other login with a non-empty username and
\* password yields 200 with an access_token that starts with "mock_jwt_".
C9_NonEmptyShortPasswordIs401 ==
    (IsLogin(last) /\ last.req.username # <<>> /\ last.req.password # <<>>)
    => IF Len(last.req.password) < MinPasswordLen
       THEN last.status = 401
       ELSE last.status = 200 /\ StartsWith(last.body.access_token, MockJwtPrefix)

\* C9 witness: a 200 for a password of exactly 3 characters.
C9_Witness ==
    /\ IsLogin(last)
    /\ last.status = 200
    /\ Len(last.req.password) = MinPasswordLen
    /\ StartsWith(last.body.access_token, MockJwtPrefix)

\* the projects of projs whose name or non-null description contains term
\* ignoring letter case, in list order
Containing(projs, term) ==
    SelectSeq(projs, LAMBDA p :
        \/ Contains(Lower(p.name), Lower(term))
        \/ p.description # None /\ Contains(Lower(p.description.v), Lower(term)))

\* C10 (as stated): when a search term is given, total counts, and a page
\* large enough returns, exactly the projects whose name or description
\* contains the search term ignoring letter case, in list order.
C10_SearchIsSubstringMatch ==
    (IsList(last) /\ last.status = 200 /\ IsStr(last.req.search))
    => LET matching == Containing(projects, last.req.search.v)
       IN  /\ last.body.total = Len(matching)
           /\ (last.req.page = 1 /\ last.req.size >= Len(projects))
              => last.body.projects = matching

\* C10 (amended): ... contains the search term trimmed of surrounding
\* whitespace; a search term that is empty after trimming filters nothing.
C10_SearchIsTrimmedSubstringMatch ==
    (IsList(last) /\ last.status = 200 /\ IsStr(last.req.search))
    => LET matching == Containing(projects, Strip(last.req.search.v))
       IN  /\ last.body.total = Len(matching)
           /\ (last.req.page = 1 /\ last.req.size >= Len(projects))
              => last.body.projects = matching

\* C10 witness: " System" finds project 5 through its description and project
\* 6, whose description is null, through its name.
C10_Witness ==
    /\ IsList(last)
    /\ last.status = 200
    /\ last.req.search = Str(S_system)
    /\ last.body.total = 2
    /\ last.body.projects = <<MOCK_PROJECTS[5], MOCK_PROJECTS[6]>>

----------------------------------------------------------------------------
(* Further properties of the project list. *)

\* C11: every project of the list has a name of 1 to 255 characters and a
\* description that is null or a non-empty string of at most 1000 characters.
C11_StoredFieldsWithinLimits ==
    \A i \in DOMAIN projects :
        /\ Len(projects[i].name) >= 1
        /\ Len(projects[i].name) <= MaxNameLen
        /\ \/ projects[i].description = None
           \/ /\ IsStr(projects[i].description)
              /\ Len(projects[i].description.v) >= 1
              /\ Len(projects[i].description.v) <= MaxDescriptionLen

\* C11 witness: a whitespace-only description was stored as null, under a
\* name that has 255 characters only after trimming.
C11_Witness ==
    /\ IsCreate(last)
    /\ last.status = 201
    /\ last.req.request.description = Str(<<" ", " ">>)
    /\ Head(projects).description = None
    /\ Len(last.req.request.name.v) > MaxNameLen
    /\ Len(Head(projects).name) = MaxNameLen

\* C12: every step keeps the previous list, unchanged and in its order, as
\* the tail of the new list: no project is removed or altered, and a project
\* created by a later request precedes every earlier project and every fixture.
C12_ListOnlyGrowsAtFront ==
    [][/\ Len(projects') >= Len(projects)
       /\ SubSeq(projects', Len(projects') - Len(projects) + 1, Len(projects'))
            = projects]_vars

\* C12 witness: after two creations and a listing, the later project is
\* first, the earlier one second, and the six fixtures follow.
C12_Witness ==
    /\ IsList(last)
    /\ uuidCalls = 2
    /\ projects[1].id = Uuid4(2)
    /\ projects[2].id = Uuid4(1)
    /\ SubSeq(projects, 3, Len(projects)) = MOCK_PROJECTS

\* C19: get_prd answers 401 when the bearer-token check fails; otherwise it
\* answers 200 with the fixed PRD text exactly when project_id is
\* "b2c3d4e5-f6a7-8901-bcde-f12345678901" and with the empty string for any
\* other project_id, whatever user_id is and whatever the project list holds.
C19_PrdTextByProjectIdOnly ==
    last.op = "get_prd" =>
        IF ~Authenticated(last.req.authorization)
        THEN last.status = 401 /\ last.body = NoBody
        ELSE /\ last.status = 200
             /\ last.body.text =
                  IF last.req.project_id = "b2c3d4e5-f6a7-8901-bcde-f12345678901"
                  THEN "Build me a Restaurant dine in reservation system that gamifies coupons"
                  ELSE ""

\* C19 witness: the PRD of a project that was created and is in the list is
\* read with a valid token, and the text is empty.
C19_Witness ==
    /\ last.op = "get_prd"
    /\ last.status = 200
    /\ last.req.user_id = "u2"
    /\ \E i \in DOMAIN projects : projects[i].id = last.req.project_id
    /\ last.req.project_id = Uuid4(1)
    /\ last.body.text = ""

\* the description of request r is a string longer than 1000 characters
\* after trimming
OverLongDescription(r) ==
    /\ IsStr(r.req.request.description)
    /\ Len(Strip(r.req.request.description.v)) > MaxDescriptionLen

\* the name of request r is a string equal, ignoring case and surrounding
\* whitespace, to the name of a fixture
CollidingName(r) ==
    /\ IsStr(r.req.request.name)
    /\ SameNameIn(MOCK_PROJECTS, Strip(r.req.request.name.v))

\* C17: create-project checks the token, then the body, then the name
\* collision: a request that fails the token check gets 401 whatever its
\* body, an authenticated request with an invalid body gets 400 whatever its
\* name (a colliding name with an over-long description gets 400, not 409),
\* and 409 is given only to an authenticated request with a valid body.
C17_TokenThenBodyThenCollision ==
    IsCreate(last) =>
        /\ ~Authenticated(last.req.authorization) => last.status = 401
        /\ (Authenticated(last.req.authorization)
              /\ BodyError(last.req.request) # NoDetail) => last.status = 400
        /\ (Authenticated(last.req.authorization) /\ CollidingName(last)
              /\ OverLongDescription(last)) => last.status = 400
        /\ last.status = 409 =>
              /\ Authenticated(last.req.authorization)
              /\ BodyError(last.req.request) = NoDetail
              /\ CollidingName(last)

\* C17 witness: an authenticated request with a fixture's name in lower case
\* and a description of 1001 characters was answered 400.
C17_Witness ==
    /\ IsCreate(last)
    /\ Authenticated(last.req.authorization)
    /\ last.req.request.name = Str(Lower(Name2))
    /\ OverLongDescription(last)
    /\ last.status = 400

----------------------------------------------------------------------------
(* Properties of the fixture endpoints (SpecRequest). *)

UploadOps ==
    {"upload_prd", "upload_userpersonas", "upload_branddesign", "upload_thirdparty",
     "upload_thirdprovider"}

IsUpload(r) == r.op \in UploadOps

\* the main payload field of upload request r, as sent
MainField(r) ==
    CASE r.op = "upload_prd" -> r.req.request.text
      [] r.op = "upload_userpersonas" -> r.req.request.selected_personas
      [] r.op = "upload_branddesign" -> r.req.request.brandName
      [] r.op = "upload_thirdparty" -> r.req.request.selected_apis
      [] r.op = "upload_thirdprovider" -> r.req.request.selected_providers

\* the key is missing, or its value is the empty string, array or object
MissingOrEmpty(x) == x \in {Absent, Str(<<>>), List(<<>>), Dict(<<>>)}

\* C13: the outcome of every request to every endpoint is a success or one
\* of the errors 400, 401, 404, 409.
C13_ErrorsAre400_401_404_409 ==
    last.op # "none" => last.status \in {200, 201, 400, 401, 404, 409}

\* C14: a step changes the project list only if it is a create-project
\* request answered 201; list-projects, login, get_prd, every fixture
\* endpoint and every create-project answered 400, 401 or 409 leave it as
\* it was.
C14_ListChangesOnlyOn201 ==
    [][/\ projects' # projects => IsCreate(last') /\ last'.status = 201
       /\ (IsCreate(last') /\ last'.status = 201) => projects' # projects]_vars

\* C14 witness: a create-project request was answered 409 and the list is
\* the initial one.
C14_Witness ==
    /\ IsCreate(last)
    /\ last.status = 409
    /\ projects = MOCK_PROJECTS

NonBlankStr(x) == IsStr(x) /\ Strip(x.v) # <<>>

\* a non-empty array of objects
ObjectList(x) == x.t = "list" /\ x.v # <<>> /\ \A i \in DOMAIN x.v : IsDict(x.v[i])

\* the category of every object of the array is a string, or missing
StringCategories(x) ==
    \A i \in DOMAIN x.v :
        \A j \in DOMAIN x.v[i].v : x.v[i].v[j].key = K_category => IsStr(x.v[i].v[j].value)

\* the main field of upload request r (for upload_branddesign: and colors)
\* is a non-empty value of the JSON type the endpoint expects
WellFormed(r) ==
    CASE r.op = "upload_prd" -> NonBlankStr(MainField(r))
      [] r.op = "upload_userpersonas" -> ObjectList(MainField(r))
      [] r.op = "upload_branddesign" ->
            /\ NonBlankStr(MainField(r))
            /\ r.req.request.colors \notin {Absent, None, Str(<<>>), List(<<>>), Dict(<<>>)}
            /\ r.req.request.colors.t # "int"
      [] r.op = "upload_thirdparty" ->
            ObjectList(MainField(r)) /\ StringCategories(MainField(r))
      [] r.op = "upload_thirdprovider" -> IsDict(MainField(r)) /\ MainField(r).v # <<>>

\* the main field of upload request r is a string of whitespace only
Blank(r) ==
    /\ r.op \in {"upload_prd", "upload_branddesign"}
    /\ IsStr(MainField(r))
    /\ Strip(MainField(r).v) = <<>>

KnownProviders ==
    {Str(S_Stripe), Str(S_PayPal), Str(S_GoogleMaps), Str(S_Mapbox), Str(S_Auth0),
     Str(S_FirebaseAuth), Str(S_Twilio), Str(S_SendGrid), Str(S_AWSS3)}

\* C18: upload_thirdprovider with a non-empty selected_providers object
\* answers 200 with one api_key_requirements entry per member, in the
\* object's order, each with a non-empty keys_required (for a provider
\* outside the built-in table: the single key '<category>_api_key'), with
\* count the number of members and next_step "enter_api_keys".
C18_OneRequirementPerProvider ==
    (last.op = "upload_thirdprovider" /\ IsDict(MainField(last))
       /\ MainField(last).v # <<>>) =>
        /\ last.status = 200
        /\ last.body.data.count = Len(MainField(last).v)
        /\ last.body.data.next_step = "enter_api_keys"
        /\ Len(last.body.data.api_key_requirements) = Len(MainField(last).v)
        /\ \A i \in DOMAIN MainField(last).v :
              LET member == MainField(last).v[i]
                  key_info == last.body.data.api_key_requirements[i]
              IN  /\ key_info.category = member.key
                  /\ key_info.provider = member.value
                  /\ Len(key_info.keys_required) >= 1
                  /\ member.value \notin KnownProviders =>
                        /\ Len(key_info.keys_required) = 1
                        /\ key_info.keys_required[1].field
                             = member.key \o <<"_", "a", "p", "i", "_", "k", "e", "y">>

\* C18 witness: two providers were selected, the second outside the table.
C18_Witness ==
    /\ last.op = "upload_thirdprovider"
    /\ last.status = 200
    /\ MainField(last) = Dict(<<[key |-> S_storage, value |-> Str(S_AWSS3)],
                               [key |-> S_maps, value |-> Str(S_Foo)]>>)
    /\ Len(last.body.data.api_key_requirements[1].keys_required) = 4
    /\ last.body.data.api_key_requirements[2].keys_required[1].field
         = <<"m", "a", "p", "s", "_", "a", "p", "i", "_", "k", "e", "y">>

\* C20: whenever a get_userpersonas request is waiting, serving it can end
\* with the four personas and can end with the empty list and the message
\* "No user personas found".
C20_BothOutcomesPossible ==
    input.op = "get_userpersonas" =>
        /\ ENABLED (ServeGetUserPersonas /\ Len(last'.body.personas) = 4)
        /\ ENABLED (ServeGetUserPersonas /\ last'.body.personas = <<>>
                      /\ last'.body.message = "No user personas found")

----------------------------------------------------------------------------
(* Properties of the item list (SpecItems). *)

\* C16: a successful DELETE /items/{id} leaves no item with that id; an id
\* that was assigned and is no longer in the list is in the list after no
\* step, whatever items are created; and GET /items/{id} answers 404
\* exactly when no item has the id. So a fetch of a deleted id yields 404
\* after any sequence of further creations.
C16_DeletedIdStays404 ==
    [][/\ (last'.op = "delete_item" /\ last'.status = 200) =>
             ~HasItem(items', last'.req.item_id)
       /\ \A item_id \in ItemIds :
             (item_id < nextItemId /\ ~HasItem(items, item_id)) =>
                 ~HasItem(items', item_id)
       /\ last'.op = "get_item" =>
             (last'.status = 404 <=> ~HasItem(items, last'.req.item_id))]_vars

\* C16 witness: item 1 was created and deleted, every other id has been
\* assigned, items remain in the list, and GET /items/1 was answered 404.
C16_Witness ==
    /\ last.op = "get_item"
    /\ last.req.item_id = 1
    /\ last.status = 404
    /\ nextItemId = MaxItems + 1
    /\ Len(items) = MaxItems - 1

FixtureOps ==
    UploadOps \cup {"get_userpersonas", "get_branddesign", "get_thirdparty"}

\* the handler of the request answered in `last`, run again on the same
\* request with a valid token
ServeAgainWithValidToken ==
    CASE last.op = "upload_prd" -> upload_prd(last.req.request)
      [] last.op = "get_userpersonas" ->
            get_userpersonas(last.req.user_id, last.req.project_id, ValidAuth)
      [] last.op = "upload_userpersonas" -> upload_userpersonas(last.req.request, ValidAuth)
      [] last.op = "get_branddesign" ->
            get_branddesign(last.req.user_id, last.req.project_id, ValidAuth)
      [] last.op = "upload_branddesign" -> upload_branddesign(last.req.request, ValidAuth)
      [] last.op = "get_thirdparty" ->
            get_thirdparty(last.req.user_id, last.req.project_id, ValidAuth)
      [] last.op = "upload_thirdparty" -> upload_thirdparty(last.req.request, ValidAuth)
      [] last.op = "upload_thirdprovider" ->
            upload_thirdprovider(last.req.request, ValidAuth)

\* C23: no answer of upload_prd or of a persona, brand-design or third-party
\* endpoint is 401, and whatever the Authorization header was, the status,
\* detail and body of the answer are ones the same request gets with a
\* valid token.
C23_FixtureEndpointsIgnoreToken ==
    last.op \in FixtureOps =>
        /\ last.status # 401
        /\ ENABLED (/\ ServeAgainWithValidToken
                    /\ last'.status = last.status
                    /\ last'.detail = last.detail
                    /\ last'.body = last.body)

\* C23 witness: upload_thirdprovider saved a selection sent with an
\* "expired" token.
C23_Witness ==
    /\ last.op = "upload_thirdprovider"
    /\ last.req.authorization = Str(BearerPrefix \o ExpiredWord)
    /\ ~Authenticated(last.req.authorization)
    /\ last.status = 200
    /\ last.body.data.count = 1

----------------------------------------------------------------------------
(* Pagination across requests (Spec). *)

PageSearches == {None, Str(S_foo), Str(S_management)}

\* the pages 1..pages of an already filtered list for one size, in page
\* order, as list_projects computes each of them
AllPages(filtered, size) ==
    [page \in 1..PageCount(Len(filtered), size) |-> Paginate(filtered, page, size)]

\* for every size and search term, the pages of the list in page order make
\* up the filtered list
PagesMakeUpFilteredList ==
    \A search \in PageSearches :
        LET filtered == FilteredProjects(projects, search)
        IN  \A size \in 1..MaxSize : Concat(AllPages(filtered, size)) = filtered

\* a step that creates a project moves the last project of every full page
\* of the unfiltered list to the head of the next page
CreateShiftsPages ==
    (IsCreate(last') /\ last'.status = 201) =>
        \A size \in 1..MaxSize, page \in 1..MaxPage :
            Len(Paginate(projects, page, size)) = size =>
                /\ Paginate(projects', page + 1, size) # <<>>
                /\ Paginate(projects', page + 1, size)[1]
                     = Paginate(projects, page, size)[size]

\* a list-projects answer without search term is the requested page of the
\* list
AnswerIsPage ==
    (IsList(last') /\ last'.status = 200 /\ last'.req.search = None) =>
        last'.body.projects = Paginate(projects', last'.req.page, last'.req.size)

\* C22: while no project is created, the answers of list-projects for pages
\* 1..pages of one size and search term, put together in page order, are
\* the filtered list, each matching project once; a create-project that
\* succeeds between two page requests makes the last project of a page
\* come back as the first project of the next page.
C22_PagesPartitionUntilCreate ==
    /\ []PagesMakeUpFilteredList
    /\ [][AnswerIsPage /\ CreateShiftsPages]_vars

\* C22 witness: after one creation, page 2 of size 2 was answered starting
\* with the fixture that ended page 1 of size 2 before the creation.
C22_Witness ==
    /\ IsList(last)
    /\ last.status = 200
    /\ last.req.page = 2
    /\ last.req.size = 2
    /\ last.req.search = None
    /\ uuidCalls = 1
    /\ last.body.projects[1] = Paginate(MOCK_PROJECTS, 1, 2)[2]

----------------------------------------------------------------------------
(* Concurrent create-project requests (SpecConcurrent). *)

\* the name a request asks for, as the duplicate scan compares it
AskedName(r) == Lower(TrimmedName(r.request))

\* connection c's request was answered with 201
Created(c) == inflight[c].state = "answered" /\ inflight[c].status = 201

\* no two answered requests for the same name ignoring case both got 201
NoTwoCreatedWithSameName ==
    \A c, d \in Clients :
        (c # d /\ Created(c) /\ Created(d)) =>
            AskedName(inflight[c]) # AskedName(inflight[d])

\* every step that changes the list is the whole handler of one request: the
\* name was free in the very list the record is inserted into, the request
\* is answered with 201 in the same step and no other request moves
ScanAndInsertInOneStep ==
    projects' # projects =>
        \E c \in Clients :
            /\ inflight[c].state = "pending"
            /\ ~SameNameIn(projects, TrimmedName(inflight[c].request))
            /\ inflight'[c].state = "answered"
            /\ inflight'[c].status = 201
            /\ projects' = Insert0(projects, last'.body)
            /\ last'.body.name = TrimmedName(inflight[c].request)
            /\ \A d \in Clients \ {c} : inflight'[d] = inflight[d]

\* C21: under every interleaving of arrivals and handlings of concurrent
\* create-project requests, the duplicate scan and the insertion of a request
\* happen in one step, two requests for the same name ignoring case are never
\* both answered with 201, and no two projects of the list have names that
\* are equal ignoring case.
C21_ScanAndInsertAtomic ==
    /\ [](NoTwoCreatedWithSameName /\ C3_NamesUniqueIgnoringCase)
    /\ [][ScanAndInsertInOneStep]_vars

\* C21 witness: two requests for the same name ignoring case were in flight
\* together; the one handled first got 201 and the other 409.
C21_Witness ==
    \E c, d \in Clients :
        /\ c # d
        /\ Created(c)
        /\ inflight[d].state = "answered"
        /\ inflight[d].status = 409
        /\ inflight[c].request.name # inflight[d].request.name
        /\ AskedName(inflight[c]) = AskedName(inflight[d])
        /\ IsCreate(last)
        /\ last.status = 409

====
